---- MODULE Spec2Model ----
(***************************************************************************)
(* Model of src/fivetranLoopsConnector/connector.py: the Loops audience    *)
(* connector.  One run of update(configuration, state) is a state machine: *)
(* configuration check, custom-field discovery, the export/poll/sign       *)
(* protocol, the CSV download, header mapping, and the batched             *)
(* upsert/checkpoint loop.                                                 *)
(*                                                                         *)
(* Python strings are sequences of one-character strings, so that the      *)
(* string functions (lower, re.sub, split, index) are computed and not     *)
(* assumed.  Python values that a record can hold are tagged records:      *)
(* PyNone, PyStr(s), PyBool(b), PyFloat(m, e).                             *)
(***************************************************************************)
EXTENDS Integers, Sequences, FiniteSets, TLC

(***************************************************************************)
(* Bounds of the model.                                                    *)
(***************************************************************************)
\* Status checks one run may issue before the model stops exploring.
MaxPolls == 2
\* Descriptors in one custom-fields response.
MaxFields == 1
\* Data rows of a CSV whose rows are drawn freely from RowPool (Spec).
MaxRows == 2
\* Data rows of a long CSV (SpecBatch).
MaxBatchRows == 2500
\* Characters of a generated custom field name (SpecNames).
MaxNameLen == 3
\* Data rows of a CSV whose rows are drawn from DecodeRowPool (SpecDecode).
MaxDecodeRows == 1
\* Data rows of a CSV whose cells are timestamps (SpecTimestamps).
MaxTimestampRows == 1

(***************************************************************************)
(* Characters and strings.                                                 *)
(***************************************************************************)
UpperChars ==
    << "A","B","C","D","E","F","G","H","I","J","K","L","M",
       "N","O","P","Q","R","S","T","U","V","W","X","Y","Z" >>

LowerChars ==
    << "a","b","c","d","e","f","g","h","i","j","k","l","m",
       "n","o","p","q","r","s","t","u","v","w","x","y","z" >>

DigitChars == << "0","1","2","3","4","5","6","7","8","9" >>

Range(f) == { f[i] : i \in DOMAIN f }

IsUpper(c) == c \in Range(UpperChars)

IsLower(c) == c \in Range(LowerChars)

IsDigit(c) == c \in Range(DigitChars)

\* [a-zA-Z0-9]
IsAlnum(c) == IsUpper(c) \/ IsLower(c) \/ IsDigit(c)

\* str.lower() on one character.
LowerChar(c) ==
    IF IsUpper(c)
    THEN LowerChars[CHOOSE i \in DOMAIN UpperChars : UpperChars[i] = c]
    ELSE c

\* Mutant of Lower: the text is compared as it is, without .lower().
LowerOmitted(s) == s

\* str.lower()
Lower(s) == [i \in DOMAIN s |-> LowerChar(s[i])]

\* The value of a decimal digit character.
DigitVal(c) == (CHOOSE i \in DOMAIN DigitChars : DigitChars[i] = c) - 1

\* str(n) for a natural number n.
RECURSIVE NatStr(_)
NatStr(n) ==
    IF n < 10 THEN << DigitChars[n + 1] >>
    ELSE Append(NatStr(n \div 10), DigitChars[(n % 10) + 1])

\* list.index(x): the first position of x (positions count from 1 here).
IndexOf(seq, x) == CHOOSE i \in DOMAIN seq : seq[i] = x /\ \A j \in 1..(i-1) : seq[j] # x

(***************************************************************************)
(* Python values.                                                          *)
(***************************************************************************)
PyNone == [t |-> "none"]

PyStr(s) == [t |-> "str", s |-> s]

PyBool(b) == [t |-> "bool", b |-> b]

\* A float m * 10^e (m, e integers), or one of inf, -inf, nan.
PyFloat(m, e) == [t |-> "float", m |-> m, e |-> e]

PyFloatSpecial(k) == [t |-> "float", k |-> k]

IsStr(v) == v.t = "str"

\* bool(v) for the values that reach an "if not v" test.
Truthy(v) ==
    CASE v.t = "none" -> FALSE
      [] v.t = "str" -> v.s # << >>
      [] v.t = "bool" -> v.b
      [] OTHER -> TRUE

(***************************************************************************)
(* Name normalisation: camel_to_snake_case, sanitize_sql_name,             *)
(* normalize_field_name.                                                   *)
(***************************************************************************)
\* Mutant of InsertUnderscores: an underscore before digits too, as for
\* r'(?<!^)(?=[A-Z0-9])'.
RECURSIVE InsertUnderscoresBeforeDigits(_, _)
InsertUnderscoresBeforeDigits(name, i) ==
    IF i > Len(name) THEN << >>
    ELSE (IF i > 1 /\ (IsUpper(name[i]) \/ IsDigit(name[i]))
          THEN << "_", name[i] >>
          ELSE << name[i] >>)
         \o InsertUnderscoresBeforeDigits(name, i + 1)

\* Mutant of InsertUnderscores: an underscore only between a lower-case letter
\* and an upper-case one, r'(?<=[a-z])(?=[A-Z])'.
RECURSIVE InsertUnderscoresAfterLower(_, _)
InsertUnderscoresAfterLower(name, i) ==
    IF i > Len(name) THEN << >>
    ELSE (IF i > 1 /\ IsUpper(name[i]) /\ IsLower(name[i - 1])
          THEN << "_", name[i] >>
          ELSE << name[i] >>)
         \o InsertUnderscoresAfterLower(name, i + 1)

\* re.sub(r'(?<!^)(?=[A-Z])', '_', name): an underscore before every upper-case
\* letter that is not the first character.
RECURSIVE InsertUnderscores(_, _)
InsertUnderscores(name, i) ==
    IF i > Len(name) THEN << >>
    ELSE (IF i > 1 /\ IsUpper(name[i]) THEN << "_", name[i] >> ELSE << name[i] >>)
         \o InsertUnderscores(name, i + 1)

camel_to_snake_case(name) == Lower(InsertUnderscores(name, 1))

\* re.sub(r'[^a-zA-Z0-9]', '_', name)
ReplaceNonAlnum(name) == [i \in DOMAIN name |-> IF IsAlnum(name[i]) THEN name[i] ELSE "_"]

\* sanitized[0] raises IndexError on the empty string.
sanitize_sql_name_raises(name) == name = << >>

sanitize_sql_name(name) ==
    LET sanitized == ReplaceNonAlnum(name)
        prefixed == IF IsDigit(sanitized[1]) THEN << "f", "_" >> \o sanitized ELSE sanitized
    IN Lower(prefixed)

normalize_field_name_raises(field_name) ==
    sanitize_sql_name_raises(camel_to_snake_case(field_name))

normalize_field_name(field_name) == sanitize_sql_name(camel_to_snake_case(field_name))

(***************************************************************************)
(* Scanning helpers shared by the timestamp and number parsers.            *)
(***************************************************************************)
\* The number of consecutive decimal digits of s starting at position p.
RECURSIVE RunLen(_, _)
RunLen(s, p) == IF p >= 1 /\ p <= Len(s) /\ IsDigit(s[p]) THEN 1 + RunLen(s, p + 1) ELSE 0

\* int() of a sequence of decimal digits (0 for the empty one).
RECURSIVE NumVal(_)
NumVal(ds) ==
    IF ds = << >> THEN 0
    ELSE 10 * NumVal(SubSeq(ds, 1, Len(ds) - 1)) + DigitVal(ds[Len(ds)])

\* Whether the character at position p is c (re.IGNORECASE); a position of 0
\* is a failed match and stays failed.
CharAt(s, p, c) == p >= 1 /\ p <= Len(s) /\ LowerChar(s[p]) = LowerChar(c)

\* Match the literal c at p: the position after it, or 0.
Lit(s, p, c) == IF CharAt(s, p, c) THEN p + 1 ELSE 0

\* Match exactly n digits at p: the position after them, or 0.
FixedDigits(s, p, n) == IF p >= 1 /\ RunLen(s, p) >= n THEN p + n ELSE 0

\* Match a one- or two-digit field that a non-digit follows in the format: the
\* whole digit run is the field, and its value lies in lo..hi.
NumField(s, p, lo, hi) ==
    LET n == RunLen(s, p)
        v == NumVal(SubSeq(s, p, p + n - 1))
    IN IF p >= 1 /\ n \in 1..2 /\ v >= lo /\ v <= hi THEN p + n ELSE 0

\* The value of the digit run NumField matched between p and q.
FieldVal(s, p, q) == NumVal(SubSeq(s, p, q - 1))

\* str.replace(old, new) for a one-character old.
RECURSIVE ReplaceChar(_, _, _)
ReplaceChar(s, old, new) ==
    IF s = << >> THEN << >>
    ELSE (IF Head(s) = old THEN new ELSE << Head(s) >>) \o ReplaceChar(Tail(s), old, new)

\* str.split(sep)[0]: the text before the first sep (all of it when there is none).
RECURSIVE BeforeFirst(_, _)
BeforeFirst(s, sep) ==
    IF s = << >> \/ Head(s) = sep THEN << >>
    ELSE << Head(s) >> \o BeforeFirst(Tail(s), sep)

\* str.strip() of ASCII blanks.
RECURSIVE LStrip(_)
LStrip(s) == IF s # << >> /\ Head(s) = " " THEN LStrip(Tail(s)) ELSE s

RECURSIVE RStrip(_)
RStrip(s) == IF s # << >> /\ s[Len(s)] = " " THEN RStrip(SubSeq(s, 1, Len(s) - 1)) ELSE s

Strip(s) == RStrip(LStrip(s))

(***************************************************************************)
(* datetime.datetime.strptime(s, "%Y-%m-%dT%H:%M:%S.%f%z"): whether it      *)
(* returns (TRUE) or raises ValueError (FALSE).  The format's regular      *)
(* expression (CPython _strptime.TimeRE) is                                *)
(*   \d\d\d\d - (1[0-2]|0[1-9]|[1-9]) - (3[0-1]|[1-2]\d|0[1-9]|[1-9]| [1-9]) *)
(*   T (2[0-3]|[0-1]\d|\d) : ([0-5]\d|\d) : (6[0-1]|[0-5]\d|\d) \.          *)
(*   [0-9]{1,6} ([+-]\d\d:?[0-5]\d(:?[0-5]\d(\.\d{1,6})?)?|Z)               *)
(* matched ignoring case (but for Z), and the whole string must be used.   *)
(***************************************************************************)
IsLeap(y) == (y % 4 = 0 /\ y % 100 # 0) \/ y % 400 = 0

DaysInMonth(y, m) ==
    IF m = 2 THEN (IF IsLeap(y) THEN 29 ELSE 28)
    ELSE IF m \in {4, 6, 9, 11} THEN 30 ELSE 31

\* %d: a one- or two-digit day 1..31, or a blank and one digit 1..9.
DayField(s, p) ==
    IF CharAt(s, p, " ")
    THEN (IF RunLen(s, p + 1) = 1 /\ s[p + 1] # "0" THEN p + 2 ELSE 0)
    ELSE NumField(s, p, 1, 31)

DayVal(s, p, q) == IF s[p] = " " THEN DigitVal(s[p + 1]) ELSE FieldVal(s, p, q)

\* %m: "0" and "00" match no alternative; NumField's lower bound 1 excludes them.
\* %f: one to six digits, all of the digit run (a sign follows in the format).
FracField(s, p) ==
    LET n == RunLen(s, p) IN IF p >= 1 /\ n \in 1..6 THEN p + n ELSE 0

\* [0-5]\d at p.
SixtyField(s, p) ==
    IF p >= 1 /\ RunLen(s, p) >= 2 /\ DigitVal(s[p]) <= 5 THEN p + 2 ELSE 0

\* The parts of the format are matched left to right, one operator each; an
\* operator is given the position p where its part starts and the values read
\* so far, and hands on to the next.

\* datetime(...) and timezone(...) accept the values: MINYEAR is 1, the day
\* exists, second <= 59, and the offset is strictly within 24 hours.
ValuesOk(year, month, day, second, gmtoff) ==
    /\ year >= 1
    /\ day <= DaysInMonth(year, month)
    /\ second <= 59
    /\ gmtoff < 86400

\* The optional (\.\d{1,6})? after the offset's seconds, at p: the position after it.
\* fl digits follow the point; at most six are taken.
ZoneFracEnd(p, fl) == IF fl = 0 THEN p ELSE IF fl > 6 THEN p + 7 ELSE p + 1 + fl

ZoneFrac(s, p) == ZoneFracEnd(p, IF CharAt(s, p, ".") THEN RunLen(s, p + 1) ELSE 0)

\* The optional (:?[0-5]\d(\.\d{1,6})?)? at p, with a the position of its two
\* digits (after the colon, if there is one) and b the position after them (0
\* when they do not match, and then the group matches nothing).  zcolon: whether
\* hours and minutes were written with a colon.  A seconds part written with a
\* colon after colon-less hours and minutes, or the other way round, fails in
\* _strptime ("Inconsistent use of :", or int(":3")).
ZoneSecondsAt(s, p, a, b, zcolon, year, month, day, second, hm) ==
    IF b = 0
    THEN p = Len(s) + 1 /\ ValuesOk(year, month, day, second, hm)
    ELSE /\ ZoneFrac(s, b) = Len(s) + 1
         /\ (a > p) <=> zcolon
         /\ ValuesOk(year, month, day, second, hm + FieldVal(s, a, b))

ZoneSecondsFrom(s, p, a, zcolon, year, month, day, second, hm) ==
    ZoneSecondsAt(s, p, a, SixtyField(s, a), zcolon, year, month, day, second, hm)

ZoneSeconds(s, p, zcolon, year, month, day, second, hm) ==
    ZoneSecondsFrom(s, p, IF CharAt(s, p, ":") THEN p + 1 ELSE p, zcolon,
                    year, month, day, second, hm)

\* [0-5]\d, the offset's minutes, from a to b.
ZoneMinutesAt(s, a, b, zcolon, year, month, day, second, hours) ==
    /\ b > 0
    /\ ZoneSeconds(s, b, zcolon, year, month, day, second,
                   3600 * hours + 60 * FieldVal(s, a, b))

\* :? and the minutes, at p.
ZoneMinutes(s, p, zcolon, year, month, day, second, hours) ==
    ZoneMinutesAt(s, IF zcolon THEN p + 1 ELSE p, SixtyField(s, IF zcolon THEN p + 1 ELSE p),
                  zcolon, year, month, day, second, hours)

\* %z at p: [+-]\d\d ...  (the alternative Z cannot occur: every Z was replaced).
ZoneAt(s, p, year, month, day, second) ==
    /\ CharAt(s, p, "+") \/ CharAt(s, p, "-")
    /\ FixedDigits(s, p + 1, 2) > 0
    /\ ZoneMinutes(s, p + 3, CharAt(s, p + 3, ":"), year, month, day, second,
                   FieldVal(s, p + 1, p + 3))

\* %f from p to q.
FractionAt(s, q, year, month, day, second) ==
    q > 0 /\ ZoneAt(s, q, year, month, day, second)

\* %S from p to q, then "." and %f.
SecondAt(s, p, q, year, month, day) ==
    /\ q > 0
    /\ CharAt(s, q, ".")
    /\ FractionAt(s, FracField(s, q + 1), year, month, day, FieldVal(s, p, q))

\* %M from p to q, then ":" and %S.
MinuteAt(s, q, year, month, day) ==
    /\ q > 0
    /\ CharAt(s, q, ":")
    /\ SecondAt(s, q + 1, NumField(s, q + 1, 0, 61), year, month, day)

\* %H from p to q, then ":" and %M.
HourAt(s, q, year, month, day) ==
    /\ q > 0
    /\ CharAt(s, q, ":")
    /\ MinuteAt(s, NumField(s, q + 1, 0, 59), year, month, day)

\* %d from p to q, then "T" and %H.
DayAt(s, p, q, year, month) ==
    /\ q > 0
    /\ CharAt(s, q, "T")
    /\ HourAt(s, NumField(s, q + 1, 0, 23), year, month, DayVal(s, p, q))

\* %m from p to q, then "-" and %d.
MonthAt(s, p, q, year) ==
    /\ q > 0
    /\ CharAt(s, q, "-")
    /\ DayAt(s, q + 1, DayField(s, q + 1), year, FieldVal(s, p, q))

strptime_ok(s) ==
    /\ FixedDigits(s, 1, 4) > 0
    /\ CharAt(s, 5, "-")
    /\ MonthAt(s, 6, NumField(s, 6, 1, 12), FieldVal(s, 1, 5))

(***************************************************************************)
(* int(year_part): whether it raises ValueError, and its value.  int()      *)
(* strips blanks, takes one sign and decimal digits with single            *)
(* underscores between digits.                                             *)
(***************************************************************************)
\* Digits with single underscores between them: the digits, or << "!" >> when
\* the text is not of that shape.
RECURSIVE DigitPart(_)
DigitPart(s) ==
    IF s = << >> THEN << "!" >>
    ELSE IF ~IsDigit(Head(s)) THEN << "!" >>
    ELSE IF Len(s) = 1 THEN s
    ELSE LET rest == IF s[2] = "_" THEN SubSeq(s, 3, Len(s)) ELSE Tail(s)
             r == DigitPart(rest)
         IN IF r = << "!" >> THEN r ELSE << Head(s) >> \o r

IsDigitPart(s) == DigitPart(s) # << "!" >>

Unsigned(s) == IF s # << >> /\ s[1] \in {"+", "-"} THEN Tail(s) ELSE s

IsNegative(s) == s # << >> /\ s[1] = "-"

int_raises(s) == ~IsDigitPart(Unsigned(Strip(s)))

int_value(s) ==
    LET t == Strip(s)
        v == NumVal(DigitPart(Unsigned(t)))
    IN IF IsNegative(t) THEN 0 - v ELSE v

(***************************************************************************)
(* sanitize_datetime                                                       *)
(***************************************************************************)
\* Mutant of ZuluOffset: the offset without its colon, which %z also takes.
ZuluOffsetNoColon == << "+", "0", "0", "0", "0" >>

\* date_str.replace('Z', '+00:00'): what a Z becomes.
ZuluOffset == << "+", "0", "0", ":", "0", "0" >>

sanitize_datetime(date_str) ==
    IF ~Truthy(date_str) THEN PyNone
    ELSE LET s == date_str.s
             year_part == BeforeFirst(s, "-")
             replaced == ReplaceChar(s, "Z", ZuluOffset)
         IN IF s[1] = "+" THEN PyNone
            ELSE IF Len(year_part) > 4 THEN PyNone
            \* int(year_part) raising ValueError is caught: None
            ELSE IF int_raises(year_part) THEN PyNone
            ELSE IF int_value(year_part) > 9999 THEN PyNone
            ELSE IF strptime_ok(replaced) THEN PyStr(replaced)
            ELSE PyNone

(***************************************************************************)
(* float(value): whether it raises ValueError, and its value.  float()      *)
(* strips blanks and takes one sign and then inf, infinity or nan (any     *)
(* case), or decimal digits with an optional point and exponent.  The      *)
(* value is kept exact, as m * 10^e with m not a multiple of 10.           *)
(***************************************************************************)
\* The position of the first character of s that is in cs, or 0.
FirstOf(s, cs) ==
    IF \E i \in DOMAIN s : s[i] \in cs
    THEN CHOOSE i \in DOMAIN s : s[i] \in cs /\ \A j \in 1..(i-1) : s[j] \notin cs
    ELSE 0

\* The mantissa and the exponent of an unsigned literal u, split at its first
\* e or E (at ePos; 0 when there is none).
Mantissa(u, ePos) == IF ePos = 0 THEN u ELSE SubSeq(u, 1, ePos - 1)

Exponent(u, ePos) == SubSeq(u, ePos + 1, Len(u))

\* The digits before and after the point of a mantissa (the point at dPos; 0
\* when there is none).
IntPart(mant, dPos) == IF dPos = 0 THEN mant ELSE SubSeq(mant, 1, dPos - 1)

FracPart(mant, dPos) == IF dPos = 0 THEN << >> ELSE SubSeq(mant, dPos + 1, Len(mant))

FloatSpecials ==
    { << "i","n","f" >>, << "i","n","f","i","n","i","t","y" >>, << "n","a","n" >> }

\* digits [. [digits]] or . digits
IsMantissaParts(int, frac) ==
    /\ int # << >> \/ frac # << >>
    /\ int = << >> \/ IsDigitPart(int)
    /\ frac = << >> \/ IsDigitPart(frac)

IsMantissa(mant, dPos) == IsMantissaParts(IntPart(mant, dPos), FracPart(mant, dPos))

IsDecimalAt(u, ePos) ==
    /\ IsMantissa(Mantissa(u, ePos), FirstOf(Mantissa(u, ePos), {"."}))
    /\ ePos # 0 => IsDigitPart(Unsigned(Exponent(u, ePos)))

IsDecimalLiteral(u) == IsDecimalAt(u, FirstOf(u, {"e", "E"}))

IsFloatText(u) == Lower(u) \in FloatSpecials \/ IsDecimalLiteral(u)

float_raises(value) == ~IsFloatText(Unsigned(Strip(value)))

\* m * 10^e with the trailing zeros of m moved into e; zero is (0, 0).
RECURSIVE Normalized(_, _)
Normalized(m, e) ==
    IF m = 0 THEN PyFloat(0, 0)
    ELSE IF m % 10 = 0 THEN Normalized(m \div 10, e + 1)
    ELSE PyFloat(m, e)

DigitsOf(part) == IF part = << >> THEN << >> ELSE DigitPart(part)

SignOf(t) == IF IsNegative(t) THEN 0 - 1 ELSE 1

\* The value of a decimal literal from its parts.
DecimalValue(sign, int, frac, exp) ==
    Normalized(sign * NumVal(DigitsOf(int) \o DigitsOf(frac)),
               (IF exp = << >> THEN 0 ELSE SignOf(exp) * NumVal(DigitPart(Unsigned(exp))))
                 - Len(DigitsOf(frac)))

DecimalValueAt(sign, mant, dPos, exp) ==
    DecimalValue(sign, IntPart(mant, dPos), FracPart(mant, dPos), exp)

DecimalValueOf(sign, u, ePos) ==
    DecimalValueAt(sign, Mantissa(u, ePos), FirstOf(Mantissa(u, ePos), {"."}),
                   IF ePos = 0 THEN << >> ELSE Exponent(u, ePos))

FloatOf(t, u) ==
    IF Lower(u) \in FloatSpecials
    THEN PyFloatSpecial(IF Lower(u) = << "n","a","n" >> THEN "nan"
                        ELSE IF IsNegative(t) THEN "-inf" ELSE "inf")
    ELSE DecimalValueOf(SignOf(t), u, FirstOf(u, {"e", "E"}))

float_value(value) == FloatOf(Strip(value), Unsigned(Strip(value)))

(***************************************************************************)
(* Names the connector spells out.                                         *)
(***************************************************************************)
S_email == << "e","m","a","i","l" >>

S_firstName == << "f","i","r","s","t","N","a","m","e" >>

S_lastName == << "l","a","s","t","N","a","m","e" >>

S_createdAt == << "c","r","e","a","t","e","d","A","t" >>

S_updatedAt == << "u","p","d","a","t","e","d","A","t" >>

S_unsubscribed == << "u","n","s","u","b","s","c","r","i","b","e","d" >>

S_userGroup == << "u","s","e","r","G","r","o","u","p" >>

S_first_name == << "f","i","r","s","t","_","n","a","m","e" >>

S_last_name == << "l","a","s","t","_","n","a","m","e" >>

S_created_at == << "c","r","e","a","t","e","d","_","a","t" >>

S_updated_at == << "u","p","d","a","t","e","d","_","a","t" >>

S_user_group == << "u","s","e","r","_","g","r","o","u","p" >>

S_true == << "t","r","u","e" >>

\* update's standard_mapping, in the dict's order: <<CSV header, column name>>.
standard_mapping ==
    << << S_email, S_email >>,
       << S_firstName, S_first_name >>,
       << S_lastName, S_last_name >>,
       << S_createdAt, S_created_at >>,
       << S_updatedAt, S_updated_at >>,
       << S_unsubscribed, S_unsubscribed >>,
       << S_userGroup, S_user_group >> >>

StandardColumns == { standard_mapping[i][2] : i \in DOMAIN standard_mapping }

\* fetch_custom_fields' type_mapping.get(loops_type, "STRING")
type_mapping(loops_type) ==
    CASE loops_type = "string" -> "STRING"
      [] loops_type = "number" -> "DOUBLE"
      [] loops_type = "boolean" -> "BOOLEAN"
      [] loops_type = "date" -> "UTC_DATETIME"
      [] OTHER -> "STRING"

\* update's batch_size.
batch_size == 1000

(***************************************************************************)
(* fetch_custom_fields: the two dicts it builds from the response.         *)
(* field_types is a function from the normalized key to its type;          *)
(* field_mapping keeps the dict's insertion order, as a sequence of        *)
(* <<original key, normalized key>> with each original key once.           *)
(***************************************************************************)
\* Whether the loop over the response raises (sanitized[0] on an empty key).
fetch_custom_fields_raises(fields) ==
    \E i \in DOMAIN fields : normalize_field_name_raises(fields[i].key)

\* The type the last descriptor with this normalized key gives it.
LastWith(fields, normalized_key) ==
    CHOOSE i \in DOMAIN fields :
        /\ normalize_field_name(fields[i].key) = normalized_key
        /\ \A j \in (i+1)..Len(fields) : normalize_field_name(fields[j].key) # normalized_key

field_types_of(fields) ==
    [ k \in { normalize_field_name(fields[i].key) : i \in DOMAIN fields } |->
        [ type |-> type_mapping(fields[LastWith(fields, k)].type),
          original_name |-> fields[LastWith(fields, k)].key ] ]

RECURSIVE field_mapping_of(_)
field_mapping_of(fields) ==
    IF fields = << >> THEN << >>
    ELSE LET init == field_mapping_of(SubSeq(fields, 1, Len(fields) - 1))
             key == fields[Len(fields)].key
         IN IF \E i \in DOMAIN init : init[i][1] = key
            THEN init
            ELSE Append(init, << key, normalize_field_name(key) >>)

(***************************************************************************)
(* update: the header mapping (field_indices) and the decoding of one row. *)
(***************************************************************************)
\* One "for original, sanitized in mapping: if original in headers:
\* field_indices[sanitized] = headers.index(original)" loop, over a sequence of
\* <<original, sanitized>> pairs in order; a later pair overwrites an earlier one.
RECURSIVE MapFields(_, _, _)
MapFields(indices, mapping, hdrs) ==
    IF mapping = << >> THEN indices
    ELSE LET original == mapping[1][1]
             sanitized == mapping[1][2]
             next == IF original \in Range(hdrs)
                     THEN [ k \in DOMAIN indices \cup {sanitized} |->
                              IF k = sanitized THEN IndexOf(hdrs, original) ELSE indices[k] ]
                     ELSE indices
         IN MapFields(next, Tail(mapping), hdrs)

EmptyDict == [ k \in {} |-> 0 ]

field_indices_of(hdrs, mapping) ==
    MapFields(MapFields(EmptyDict, standard_mapping, hdrs), mapping, hdrs)

\* The exception decoding a row raises, or "none".  The dict literal reads
\* every mapped standard column first (row[index]: IndexError past the end of
\* the row); then the custom fields are decoded in the order of the custom
\* fields dict, and the first that fails decides: IndexError for a cell the row
\* does not have, ValueError for a DOUBLE cell float() rejects.
RECURSIVE CustomError(_, _, _, _)
CustomError(order, row, indices, types) ==
    IF order = << >> THEN "none"
    ELSE LET k == Head(order)
         IN IF k \notin DOMAIN indices THEN CustomError(Tail(order), row, indices, types)
            ELSE IF indices[k] > Len(row) THEN "IndexError"
            ELSE IF /\ types[k].type = "DOUBLE"
                    /\ row[indices[k]] # << >>
                    /\ float_raises(row[indices[k]])
                 THEN "ValueError"
            ELSE CustomError(Tail(order), row, indices, types)

\* The keys of the custom fields dict in insertion order: each normalized key
\* where it first appears in field_mapping.
RECURSIVE KeyOrder(_)
KeyOrder(mapping) ==
    IF mapping = << >> THEN << >>
    ELSE LET init == KeyOrder(SubSeq(mapping, 1, Len(mapping) - 1))
             k == mapping[Len(mapping)][2]
         IN IF k \in Range(init) THEN init ELSE Append(init, k)

DecodeError(row, indices, types, mapping) ==
    IF \E k \in DOMAIN indices \cap StandardColumns : indices[k] > Len(row)
    THEN "IndexError"
    ELSE CustomError(KeyOrder(mapping), row, indices, types)

\* The value of a standard column (the dict literal of update).
StandardValue(k, row, indices) ==
    LET present == k \in DOMAIN indices
        cell == row[indices[k]]
    IN CASE k \in {S_email, S_first_name, S_last_name, S_user_group} ->
              IF present THEN PyStr(cell) ELSE PyStr(<< >>)
         [] k \in {S_created_at, S_updated_at} ->
              sanitize_datetime(IF present /\ cell # << >> THEN PyStr(cell) ELSE PyNone)
         [] k = S_unsubscribed ->
              IF present THEN PyBool(Lower(cell) = S_true) ELSE PyBool(FALSE)

\* The value of a custom column that is mapped ("Add custom fields").
CustomValue(k, row, indices, types) ==
    LET value == row[indices[k]]
        field_type == types[k].type
    IN CASE field_type = "BOOLEAN" ->
              IF value # << >> THEN PyBool(Lower(value) = S_true) ELSE PyBool(FALSE)
         [] field_type = "DOUBLE" ->
              IF value # << >> THEN float_value(value) ELSE PyNone
         [] field_type = "UTC_DATETIME" -> sanitize_datetime(PyStr(value))
         [] OTHER -> PyStr(value)

\* The record of one row: the standard fields first, then every custom field
\* that is mapped, which replaces a standard field of the same name.
\* Mutant of DecodeRow: every discovered custom field gets a key, in the header or not.
DecodeRowEveryCustomField(row, indices, types) ==
    [ k \in StandardColumns \cup DOMAIN types |->
        IF k \in DOMAIN types /\ k \in DOMAIN indices
        THEN CustomValue(k, row, indices, types)
        ELSE IF k \in StandardColumns
        THEN StandardValue(k, row, indices)
        ELSE PyNone ]

DecodeRow(row, indices, types) ==
    [ k \in StandardColumns \cup (DOMAIN types \cap DOMAIN indices) |->
        IF k \in DOMAIN types /\ k \in DOMAIN indices
        THEN CustomValue(k, row, indices, types)
        ELSE StandardValue(k, row, indices) ]

(***************************************************************************)
(* The batch loop's pieces (update, "Process in batches of 1000 records"). *)
(***************************************************************************)
Upsert(r) == [op |-> "upsert", table |-> "audience", data |-> r]

\* op.checkpoint(state={"last_sync": time.time(), "records_processed": n}); the
\* wall-clock reading is left out.
Checkpoint(n) == [op |-> "checkpoint", records_processed |-> n]

\* current_batch.append(record)
AppendRecord(batch, record) == Append(batch, record)

\* Mutant of FlushDue: the batch is flushed one record late.
FlushDueOffByOne(batch) == Len(batch) > batch_size

\* if len(current_batch) >= batch_size
FlushDue(batch) == Len(batch) >= batch_size

\* Mutant of NewTotal: the count is set to the batch's size, not added to.
NewTotalReset(total, batch) == Len(batch)

\* total_records += len(current_batch)
NewTotal(total, batch) == total + Len(batch)

\* Mutant of Upserts: the batch is emitted last record first.
UpsertsReversed(batch) == [i \in 1..Len(batch) |-> Upsert(batch[Len(batch) + 1 - i])]

\* for r in current_batch: yield op.upsert("audience", r)
Upserts(batch) == [i \in 1..Len(batch) |-> Upsert(batch[i])]

\* Mutant of FlushOps: a full batch is emitted without its checkpoint.
FlushOpsNoCheckpoint(batch, total) == Upserts(batch)

\* What a full batch emits: its upserts, then one checkpoint.
FlushOps(batch, total) == Upserts(batch) \o << Checkpoint(NewTotal(total, batch)) >>

\* Mutant of FinalOps: the final checkpoint is emitted only when records remain.
FinalOpsIfAny(batch, total) ==
    IF batch # << >>
    THEN Upserts(batch) \o << Checkpoint(NewTotal(total, batch)) >>
    ELSE << >>

\* What the end of the rows emits: the remaining upserts, if any, and the final
\* checkpoint, which is not conditional.
FinalOps(batch, total) ==
    IF batch # << >>
    THEN Upserts(batch) \o << Checkpoint(NewTotal(total, batch)) >>
    ELSE << Checkpoint(total) >>

(***************************************************************************)
(* The inputs of a run: the configuration, the HTTP responses and the CSV. *)
(***************************************************************************)
ConfigKeys == {"SESSION_COOKIE", "LOOPS_API_KEY"}

\* None, or a dict with some of the keys.
Configs ==
    {[is_none |-> TRUE, keys |-> {}]} \cup {[is_none |-> FALSE, keys |-> K] : K \in SUBSET ConfigKeys}

FullConfig == [is_none |-> FALSE, keys |-> ConfigKeys]

S_FavoriteColor == << "F","a","v","o","r","i","t","e"," ","C","o","l","o","r" >>

S_vip == << "v","i","p" >>

S_score == << "s","c","o","r","e" >>

S_signupDate == << "s","i","g","n","u","p","D","a","t","e" >>

S_Complete == << "C","o","m","p","l","e","t","e" >>

S_Pending == << "P","e","n","d","i","n","g" >>

S_Failed == << "F","a","i","l","e","d" >>

S_Blue == << "B","l","u","e" >>

S_TRUE_blank == << "T","R","U","E"," " >>

S_stamp ==
    << "2","0","2","4","-","0","1","-","0","2","T","0","3",":","0","4",":","0","5",
       ".","0","0","0","Z" >>

\* The descriptors a custom-fields response is made of.
FieldPool ==
    { [key |-> S_email, type |-> "number"],
      [key |-> S_firstName, type |-> "boolean"],
      [key |-> S_FavoriteColor, type |-> "string"],
      [key |-> S_vip, type |-> "boolean"],
      [key |-> S_score, type |-> "number"],
      [key |-> S_signupDate, type |-> "date"] }

RECURSIVE SeqsUpTo(_, _)
SeqsUpTo(S, n) ==
    IF n = 0 THEN { << >> }
    ELSE LET shorter == SeqsUpTo(S, n - 1)
         IN shorter \cup { Append(q, x) : q \in shorter, x \in S }

CustomFieldResponses ==
    {[ok |-> FALSE, fields |-> << >>]}
        \cup {[ok |-> TRUE, fields |-> f] : f \in SeqsUpTo(FieldPool, MaxFields)}

ExportResponses ==
    {[ok |-> FALSE, id |-> PyNone]}
        \cup {[ok |-> TRUE, id |-> i] : i \in {PyNone, PyStr(<< >>), PyStr(<< "j","1" >>)}}

StatusPool == {PyNone, PyStr(S_Pending), PyStr(S_Failed), PyStr(S_Complete)}

PollResponses ==
    {[ok |-> FALSE, status |-> PyNone]} \cup {[ok |-> TRUE, status |-> st] : st \in StatusPool}

SignResponses ==
    {[ok |-> FALSE, url |-> PyNone]}
        \cup {[ok |-> TRUE, url |-> u] : u \in {PyNone, PyStr(<< "s","3" >>)}}

DownloadResponses == {[ok |-> FALSE], [ok |-> TRUE]}

\* The header rows of the CSV; an empty file has none.
HeaderPool ==
    { << S_email, S_firstName, S_lastName, S_createdAt, S_updatedAt, S_unsubscribed,
         S_userGroup >>,
      << S_firstName >>,
      << S_email, S_FavoriteColor, S_vip, S_score, S_signupDate >> }

HeaderInputs ==
    {[present |-> FALSE, headers |-> << >>]}
        \cup {[present |-> TRUE, headers |-> h] : h \in HeaderPool}

CellPool == { << >>, S_true, S_TRUE_blank, << "1" >>, S_Blue, S_stamp }

\* The data rows drawn for a header row: one with the same cell in every column,
\* for each cell of the pool, and the row csv.reader gives for a blank line.
RowPool(hdrs) == { [i \in 1..Len(hdrs) |-> c] : c \in CellPool } \cup { << >> }

\* The long CSV of SpecBatch: its row n carries n in its email cell.
BatchHeaders == << S_email, S_FavoriteColor >>

BatchFields == << [key |-> S_FavoriteColor, type |-> "string"] >>

BatchCells == << S_Blue, << >>, S_true >>

BatchEmail(n) == << "u" >> \o NatStr(n)

BatchRow(n) == << BatchEmail(n), BatchCells[(n % Len(BatchCells)) + 1] >>

\* The rows ProcessRows takes in one step: half a batch.
ChunkRows == batch_size \div 2

\* Rows first, first + 1, ..., first + n - 1 of the long CSV.
BatchRows(first, n) == [i \in 1..n |-> BatchRow(first + i - 1)]

(***************************************************************************)
(* The state of one run of update.                                         *)
(***************************************************************************)
VARIABLES
    pc,             \* where the run is
    configuration,  \* update's argument
    error,          \* the exception that ended the run, [type, msg]
    log,            \* the HTTP requests issued and the waits, in order
    export_id,      \* fetch_loops_export's export_id
    status,         \* fetch_loops_export's status
    download_url,   \* what fetch_loops_export returned
    custom_fields,  \* fetch_custom_fields' field_types
    field_mapping,  \* fetch_custom_fields' field_mapping
    headers,        \* the CSV's header row
    field_indices,  \* column name -> position in the row
    rows_read,      \* the data rows the reader has yielded
    row,            \* the loop variable of "for row in reader"
    current_batch,  \* the records not yet emitted
    total_records,  \* the records emitted, as of the last flush
    ops,            \* the operations yielded to the host, in order
    schema_pc,      \* the call of schema: "idle", "returned" or "raised"
    schema_custom_fields,   \* schema's custom_fields
    columns         \* schema's columns: column name -> declared type

vars ==
    << pc, configuration, error, log, export_id, status, download_url, custom_fields,
       field_mapping, headers, field_indices, rows_read, row, current_batch, total_records,
       ops, schema_pc, schema_custom_fields, columns >>

\* What a run of update leaves alone: the state of the call of schema.
schema_vars == << schema_pc, schema_custom_fields, columns >>

\* What the call of schema leaves alone: the state of the run of update.
update_vars ==
    << pc, configuration, error, export_id, status, download_url, custom_fields,
       field_mapping, headers, field_indices, rows_read, row, current_batch, total_records,
       ops >>

NoError == [type |-> "none", msg |-> ""]

Init ==
    /\ pc = "start"
    /\ configuration \in Configs
    /\ error = NoError
    /\ log = << >>
    /\ export_id = PyNone
    /\ status = PyNone
    /\ download_url = PyNone
    /\ custom_fields = EmptyDict
    /\ field_mapping = << >>
    /\ headers = << >>
    /\ field_indices = EmptyDict
    /\ rows_read = 0
    /\ row = << >>
    /\ current_batch = << >>
    /\ total_records = 0
    /\ ops = << >>
    /\ schema_pc = "idle"
    /\ schema_custom_fields = EmptyDict
    /\ columns = EmptyDict

MissingConfigMsg == "Missing required configuration (SESSION_COOKIE or LOOPS_API_KEY)"

\* The run ends with an exception: nothing else changes.
Raise(type, msg) ==
    /\ pc' = "failed"
    /\ error' = [type |-> type, msg |-> msg]

\* Mutant of ConfigurationMissing: only LOOPS_API_KEY is asked for, as in schema.
ConfigurationMissingApiKeyOnly(c) == c.is_none \/ c.keys = {} \/ "LOOPS_API_KEY" \notin c.keys

\* update's test of its configuration.
ConfigurationMissing(c) ==
    c.is_none \/ c.keys = {} \/ "SESSION_COOKIE" \notin c.keys \/ "LOOPS_API_KEY" \notin c.keys

\* update, up to the first network call.
CheckConfiguration ==
    /\ pc = "start"
    /\ UNCHANGED schema_vars
    /\ UNCHANGED row
    /\ IF ConfigurationMissing(configuration)
       THEN Raise("ValueError", MissingConfigMsg)
       ELSE pc' = "custom_fields" /\ error' = error
    /\ UNCHANGED << configuration, log, export_id, status, download_url, custom_fields,
                    field_mapping, headers, field_indices, rows_read, current_batch,
                    total_records, ops >>

\* fetch_custom_fields(api_key), as update calls it.
FetchCustomFields(resp) ==
    /\ pc = "custom_fields"
    /\ UNCHANGED schema_vars
    /\ UNCHANGED row
    /\ log' = Append(log, "GET customFields")
    /\ IF ~resp.ok
       THEN Raise("HTTPError", "GET customFields") /\ UNCHANGED << custom_fields, field_mapping >>
       ELSE IF fetch_custom_fields_raises(resp.fields)
       THEN Raise("IndexError", "") /\ UNCHANGED << custom_fields, field_mapping >>
       ELSE /\ custom_fields' = field_types_of(resp.fields)
            /\ field_mapping' = field_mapping_of(resp.fields)
            /\ pc' = "export"
            /\ error' = error
    /\ UNCHANGED << configuration, export_id, status, download_url, headers, field_indices,
                    rows_read, current_batch, total_records, ops >>

(***************************************************************************)
(* schema(configuration): the declaration of the audience table.           *)
(***************************************************************************)
\* schema's test of its configuration: only LOOPS_API_KEY is asked for.
SchemaConfigurationMissing(c) == c.is_none \/ c.keys = {} \/ "LOOPS_API_KEY" \notin c.keys

\* "Base schema with standard fields"
base_columns ==
    [ k \in StandardColumns |->
        CASE k \in {S_created_at, S_updated_at} -> "UTC_DATETIME"
          [] k = S_unsubscribed -> "BOOLEAN"
          [] OTHER -> "STRING" ]

\* "Add custom fields to schema": for field, info in custom_fields.items():
\* columns[field] = info["type"], which overwrites a standard column of the
\* same name.
schema_columns(fields) ==
    [ k \in StandardColumns \cup DOMAIN fields |->
        IF k \in DOMAIN fields THEN fields[k].type ELSE base_columns[k] ]

\* schema(configuration), one call: the configuration test, fetch_custom_fields
\* and the columns of the table.
Schema(resp) ==
    /\ schema_pc = "idle"
    /\ IF SchemaConfigurationMissing(configuration)
       THEN /\ schema_pc' = "raised"
            /\ UNCHANGED << log, schema_custom_fields, columns >>
       ELSE /\ log' = Append(log, "GET customFields")
            /\ IF ~resp.ok \/ fetch_custom_fields_raises(resp.fields)
               THEN /\ schema_pc' = "raised"
                    /\ UNCHANGED << schema_custom_fields, columns >>
               ELSE /\ schema_custom_fields' = field_types_of(resp.fields)
                    /\ columns' = schema_columns(field_types_of(resp.fields))
                    /\ schema_pc' = "returned"
    /\ UNCHANGED update_vars

\* Mutant of MissingExportId: "if export_id is None", which lets an empty id through.
MissingExportIdOnlyNone(id) == id = PyNone

\* if not export_id
MissingExportId(id) == ~Truthy(id)

\* if not download_url
MissingDownloadUrl(url) == ~Truthy(url)

MissingIdMsg == "Could not initiate Loops export - missing export ID."

MissingUrlMsg == "Could not retrieve presigned download URL for Loops export."

\* fetch_loops_export, step 1: the export-creation request and the job's id.
CreateExport(resp) ==
    /\ pc = "export"
    /\ UNCHANGED schema_vars
    /\ UNCHANGED row
    /\ log' = Append(log, "POST exportContacts")
    /\ IF ~resp.ok
       THEN Raise("HTTPError", "POST exportContacts") /\ UNCHANGED << export_id, status >>
       ELSE IF MissingExportId(resp.id)
       THEN /\ Raise("ValueError", MissingIdMsg)
            /\ export_id' = resp.id
            /\ status' = status
       ELSE /\ export_id' = resp.id
            /\ status' = PyNone
            /\ pc' = "polling"
            /\ error' = error
    /\ UNCHANGED << configuration, download_url, custom_fields, field_mapping, headers,
                    field_indices, rows_read, current_batch, total_records, ops >>

\* Mutant of PollAgain: a loop that is not entered before a status was read.
PollAgainUnlessNone(st) == st # PyNone /\ st # PyStr(S_Complete)

\* Mutant of PollAgain: a loop that also ends on the status "Failed".
PollAgainUnlessFailed(st) == st # PyStr(S_Complete) /\ st # PyStr(S_Failed)

\* The poll loop's test: while status != "Complete".
PollAgain(st) == st # PyStr(S_Complete)

\* Mutant of PollExport: a turn that checks first and waits afterwards.
PollExportCheckFirst(resp) ==
    /\ pc = "polling"
    /\ UNCHANGED schema_vars
    /\ UNCHANGED row
    /\ PollAgain(status)
    /\ log' = log \o << "GET getAudienceDownload", "wait 5" >>
    /\ IF ~resp.ok
       THEN Raise("HTTPError", "GET getAudienceDownload") /\ status' = status
       ELSE status' = resp.status /\ pc' = pc /\ error' = error
    /\ UNCHANGED << configuration, export_id, download_url, custom_fields, field_mapping,
                    headers, field_indices, rows_read, current_batch, total_records, ops >>

\* fetch_loops_export, step 2: one turn of the poll loop (wait, then check).
PollExport(resp) ==
    /\ pc = "polling"
    /\ UNCHANGED schema_vars
    /\ UNCHANGED row
    /\ PollAgain(status)
    /\ log' = log \o << "wait 5", "GET getAudienceDownload" >>
    /\ IF ~resp.ok
       THEN Raise("HTTPError", "GET getAudienceDownload") /\ status' = status
       ELSE status' = resp.status /\ pc' = pc /\ error' = error
    /\ UNCHANGED << configuration, export_id, download_url, custom_fields, field_mapping,
                    headers, field_indices, rows_read, current_batch, total_records, ops >>

\* fetch_loops_export, step 3: the signing request, once the loop has ended.
SignExport(resp) ==
    /\ pc = "polling"
    /\ UNCHANGED schema_vars
    /\ UNCHANGED row
    /\ ~PollAgain(status)
    /\ log' = Append(log, "POST signs3Url")
    /\ IF ~resp.ok
       THEN Raise("HTTPError", "POST signs3Url") /\ download_url' = download_url
       ELSE IF MissingDownloadUrl(resp.url)
       THEN /\ Raise("ValueError", MissingUrlMsg)
            /\ download_url' = resp.url
       ELSE /\ download_url' = resp.url
            /\ pc' = "download"
            /\ error' = error
    /\ UNCHANGED << configuration, export_id, status, custom_fields, field_mapping, headers,
                    field_indices, rows_read, current_batch, total_records, ops >>

\* download_loops_csv(download_url)
DownloadCsv(resp) ==
    /\ pc = "download"
    /\ UNCHANGED schema_vars
    /\ UNCHANGED row
    /\ log' = Append(log, "GET download")
    /\ IF ~resp.ok
       THEN Raise("HTTPError", "GET download")
       ELSE pc' = "headers" /\ error' = error
    /\ UNCHANGED << configuration, export_id, status, download_url, custom_fields,
                    field_mapping, headers, field_indices, rows_read, current_batch,
                    total_records, ops >>

\* update, "Get headers and map to indices": next(reader) on an empty file
\* raises StopIteration, which leaves a generator as RuntimeError.
ReadHeaders(h) ==
    /\ pc = "headers"
    /\ UNCHANGED schema_vars
    /\ UNCHANGED row
    /\ IF ~h.present
       THEN Raise("RuntimeError", "generator raised StopIteration")
              /\ UNCHANGED << headers, field_indices >>
       ELSE /\ headers' = h.headers
            /\ field_indices' = field_indices_of(h.headers, field_mapping)
            /\ pc' = "rows"
            /\ error' = error
    /\ UNCHANGED << configuration, log, export_id, status, download_url, custom_fields,
                    field_mapping, rows_read, current_batch, total_records, ops >>

\* The loop's variables, as one value.
LoopState == [batch |-> current_batch, total |-> total_records, ops |-> ops]

\* Mutant of RowStep: each record is upserted as soon as it is decoded, and the
\* full batch only adds its checkpoint.
RowStepUpsertAtOnce(s, next_row, indices, fields) ==
    LET record == DecodeRow(next_row, indices, fields)
        batch == AppendRecord(s.batch, record)
    IN IF FlushDue(batch)
       THEN [batch |-> << >>,
             total |-> NewTotal(s.total, batch),
             ops |-> s.ops \o << Upsert(record), Checkpoint(NewTotal(s.total, batch)) >>]
       ELSE [batch |-> batch, total |-> s.total, ops |-> Append(s.ops, Upsert(record))]

\* The body of "for row in reader" on the loop's variables, for a row that
\* decodes: append the record, and flush the batch with its checkpoint when it
\* is full.
RowStep(s, next_row, indices, fields) ==
    LET batch == AppendRecord(s.batch, DecodeRow(next_row, indices, fields))
    IN IF FlushDue(batch)
       THEN [batch |-> << >>,
             total |-> NewTotal(s.total, batch),
             ops |-> s.ops \o FlushOps(batch, s.total)]
       ELSE [batch |-> batch, total |-> s.total, ops |-> s.ops]

\* The body run over rows[lo..hi], in order: the first half of the rows is run
\* to its end, and the second half starts from the state it has reached
\* (total_records never decreases, so the second half always runs).
RECURSIVE RowSteps(_, _, _, _, _, _)
RowSteps(s, rows, lo, hi, indices, fields) ==
    IF lo > hi
    THEN s
    ELSE IF lo = hi
         THEN RowStep(s, rows[lo], indices, fields)
         ELSE LET half == RowSteps(s, rows, lo, (lo + hi) \div 2, indices, fields)
              IN IF half.total >= s.total
                 THEN RowSteps(half, rows, ((lo + hi) \div 2) + 1, hi, indices, fields)
                 ELSE half

\* update, one turn of "for row in reader": decode, append, and flush the batch
\* with its checkpoint when it is full.
ProcessRow(next_row) ==
    /\ pc = "rows"
    /\ UNCHANGED schema_vars
    /\ rows_read' = rows_read + 1
    /\ row' = next_row
    /\ LET err == DecodeError(next_row, field_indices, custom_fields, field_mapping)
       IN IF err # "none"
          THEN Raise(err, "") /\ UNCHANGED << current_batch, total_records, ops >>
          ELSE /\ pc' = pc
               /\ error' = error
               /\ LET s == RowStep(LoopState, next_row, field_indices, custom_fields)
                  IN /\ current_batch' = s.batch
                     /\ total_records' = s.total
                     /\ ops' = s.ops
    /\ UNCHANGED << configuration, log, export_id, status, download_url, custom_fields,
                    field_mapping, headers, field_indices >>

\* update, Len(rows) turns of "for row in reader" taken as one step, for rows
\* that all decode: the same turns as ProcessRow takes one at a time.
ProcessRows(rows) ==
    /\ pc = "rows"
    /\ UNCHANGED schema_vars
    /\ { i \in DOMAIN rows :
            DecodeError(rows[i], field_indices, custom_fields, field_mapping) # "none" } = { }
    /\ rows_read' = rows_read + Len(rows)
    /\ row' = rows[Len(rows)]
    /\ LET s == RowSteps(LoopState, rows, 1, Len(rows), field_indices, custom_fields)
       IN /\ current_batch' = s.batch
          /\ total_records' = s.total
          /\ ops' = s.ops
    /\ UNCHANGED << pc, error, configuration, log, export_id, status, download_url,
                    custom_fields, field_mapping, headers, field_indices >>

\* update, after the loop: "Process any remaining records" and "Final checkpoint".
EndOfRows ==
    /\ pc = "rows"
    /\ UNCHANGED schema_vars
    /\ UNCHANGED row
    /\ total_records' = IF current_batch # << >>
                        THEN NewTotal(total_records, current_batch)
                        ELSE total_records
    /\ ops' = ops \o FinalOps(current_batch, total_records)
    /\ pc' = "done"
    /\ UNCHANGED << configuration, error, log, export_id, status, download_url, custom_fields,
                    field_mapping, headers, field_indices, rows_read, current_batch >>

\* The status checks issued so far.
Polls == Cardinality({ i \in DOMAIN log : log[i] = "GET getAudienceDownload" })

Next ==
    \/ CheckConfiguration
    \/ \E resp \in CustomFieldResponses : FetchCustomFields(resp)
    \/ \E resp \in ExportResponses : CreateExport(resp)
    \/ \E resp \in PollResponses : Polls < MaxPolls /\ PollExport(resp)
    \/ \E resp \in SignResponses : SignExport(resp)
    \/ \E resp \in DownloadResponses : DownloadCsv(resp)
    \/ \E h \in HeaderInputs : ReadHeaders(h)
    \/ \E next_row \in RowPool(headers) : rows_read < MaxRows /\ ProcessRow(next_row)
    \/ EndOfRows

Spec == Init /\ [][Next]_vars

(***************************************************************************)
(* Long runs: every call succeeds, the export is complete at the first     *)
(* check, and the CSV has up to MaxBatchRows data rows (BatchRow(n), or a  *)
(* blank line, which ends the run with IndexError).                        *)
(***************************************************************************)
InitBatch ==
    /\ pc = "start"
    /\ configuration = FullConfig
    /\ error = NoError
    /\ log = << >>
    /\ export_id = PyNone
    /\ status = PyNone
    /\ download_url = PyNone
    /\ custom_fields = EmptyDict
    /\ field_mapping = << >>
    /\ headers = << >>
    /\ field_indices = EmptyDict
    /\ rows_read = 0
    /\ row = << >>
    /\ current_batch = << >>
    /\ total_records = 0
    /\ ops = << >>
    /\ schema_pc = "idle"
    /\ schema_custom_fields = EmptyDict
    /\ columns = EmptyDict

NextBatch ==
    \/ CheckConfiguration
    \/ FetchCustomFields([ok |-> TRUE, fields |-> BatchFields])
    \/ CreateExport([ok |-> TRUE, id |-> PyStr(<< "j","1" >>)])
    \/ PollExport([ok |-> TRUE, status |-> PyStr(S_Complete)])
    \/ SignExport([ok |-> TRUE, url |-> PyStr(<< "s","3" >>)])
    \/ DownloadCsv([ok |-> TRUE])
    \/ ReadHeaders([present |-> TRUE, headers |-> BatchHeaders])
    \/ \E next_row \in { BatchRow(rows_read + 1), << >> } :
          rows_read < MaxBatchRows /\ ProcessRow(next_row)
    \/ /\ rows_read % ChunkRows = 0
       /\ rows_read + ChunkRows <= MaxBatchRows
       /\ ProcessRows(BatchRows(rows_read + 1, ChunkRows))
    \/ EndOfRows

SpecBatch == InitBatch /\ [][NextBatch]_vars

(***************************************************************************)
(* SpecNames: schema called on the discovery of one custom field, whose    *)
(* name is any string of at most MaxNameLen characters of NameAlphabet.    *)
(***************************************************************************)
\* A lower-case letter, an upper-case letter, a digit, a space, the separator
\* and a punctuation mark.
NameAlphabet == { "a", "B", "1", " ", "_", "-" }

Names == SeqsUpTo(NameAlphabet, MaxNameLen)

NameResponses ==
    {[ok |-> FALSE, fields |-> << >>]}
        \cup {[ok |-> TRUE, fields |-> << [key |-> n, type |-> "string"] >>] : n \in Names}

NextNames == \E resp \in NameResponses : Schema(resp)

SpecNames == Init /\ [][NextNames]_vars

(***************************************************************************)
(* SpecDecode: the host calls schema and then, when schema has returned,   *)
(* update; the custom fields upstream do not change in between, and the    *)
(* export succeeds at once.  The rows are drawn from DecodeRowPool.        *)
(***************************************************************************)
S_True == << "T","r","u","e" >>

S_TRUE == << "T","R","U","E" >>

S_tRuE == << "t","R","u","E" >>

S_blank_true == << " ","t","r","u","e" >>

S_false == << "f","a","l","s","e" >>

DecodeCells ==
    { << >>, S_true, S_True, S_TRUE, S_tRuE, S_TRUE_blank, S_blank_true, << "1" >>, S_false,
      S_Blue, S_stamp }

\* One row with the same cell in every column, for each cell, and the row
\* csv.reader gives for a blank line.
DecodeRowPool(hdrs) == { [i \in 1..Len(hdrs) |-> c] : c \in DecodeCells } \cup { << >> }

\* The responses to update's discovery that give what schema's discovery gave.
SameDiscovery ==
    { resp \in CustomFieldResponses :
        ~resp.ok \/ (/\ ~fetch_custom_fields_raises(resp.fields)
                     /\ field_types_of(resp.fields) = schema_custom_fields) }

NextDecode ==
    \/ \E resp \in CustomFieldResponses : pc = "start" /\ Schema(resp)
    \/ schema_pc = "returned" /\ CheckConfiguration
    \/ pc = "custom_fields" /\ \E resp \in SameDiscovery : FetchCustomFields(resp)
    \/ CreateExport([ok |-> TRUE, id |-> PyStr(<< "j","1" >>)])
    \/ PollExport([ok |-> TRUE, status |-> PyStr(S_Complete)])
    \/ SignExport([ok |-> TRUE, url |-> PyStr(<< "s","3" >>)])
    \/ DownloadCsv([ok |-> TRUE])
    \/ \E h \in HeaderInputs : ReadHeaders(h)
    \/ \E next_row \in DecodeRowPool(headers) :
          rows_read < MaxDecodeRows /\ ProcessRow(next_row)
    \/ EndOfRows

SpecDecode == Init /\ [][NextDecode]_vars

(***************************************************************************)
(* SpecTimestamps: update on a CSV whose cells are timestamps ending in Z, *)
(* with the custom field signupDate of type date; every request succeeds.  *)
(***************************************************************************)
TimestampYears ==
    { << "0","0","0","0" >>,
      << "0","0","0","1" >>,
      << "2","0","2","4" >>,
      << "9","9","9","9" >> }

TimestampDays ==
    { << "0","1","-","0","1" >>,
      << "0","2","-","2","9" >>,
      << "1","2","-","3","1" >> }

TimestampTimes ==
    { << "0","0",":","0","0",":","0","0" >>,
      << "2","3",":","5","9",":","5","9" >> }

\* No fraction, and fractions of one, three, six and seven digits.
TimestampFractions ==
    { << >>,
      << ".","5" >>,
      << ".","0","0","0" >>,
      << ".","1","2","3","4","5","6" >>,
      << ".","1","2","3","4","5","6","7" >> }

TimestampPool ==
    { y \o << "-" >> \o d \o << "T" >> \o t \o f \o << "Z" >> :
        y \in TimestampYears, d \in TimestampDays, t \in TimestampTimes,
        f \in TimestampFractions }

TimestampFields == << [key |-> S_signupDate, type |-> "date"] >>

TimestampHeaders == << S_email, S_createdAt, S_updatedAt, S_signupDate >>

TimestampRowPool == { [i \in 1..Len(TimestampHeaders) |-> c] : c \in TimestampPool }

NextTimestamps ==
    \/ CheckConfiguration
    \/ FetchCustomFields([ok |-> TRUE, fields |-> TimestampFields])
    \/ CreateExport([ok |-> TRUE, id |-> PyStr(<< "j","1" >>)])
    \/ PollExport([ok |-> TRUE, status |-> PyStr(S_Complete)])
    \/ SignExport([ok |-> TRUE, url |-> PyStr(<< "s","3" >>)])
    \/ DownloadCsv([ok |-> TRUE])
    \/ ReadHeaders([present |-> TRUE, headers |-> TimestampHeaders])
    \/ \E next_row \in TimestampRowPool :
          rows_read < MaxTimestampRows /\ ProcessRow(next_row)
    \/ EndOfRows

SpecTimestamps == InitBatch /\ [][NextTimestamps]_vars

(***************************************************************************)
(* What the claims read off a state.                                       *)
(***************************************************************************)
IsCheckpoint(o) == o.op = "checkpoint"

IsUpsert(o) == o.op = "upsert"

\* The records_processed of the checkpoints emitted so far, in order.
CheckpointCounts ==
    LET cps == SelectSeq(ops, IsCheckpoint)
    IN [i \in DOMAIN cps |-> cps[i].records_processed]

\* The positions in ops of the checkpoints.
CheckpointPositions == { k \in DOMAIN ops : IsCheckpoint(ops[k]) }

\* The upserts emitted before position k of ops.
UpsertsBefore(k) == (k - 1) - Cardinality({ j \in CheckpointPositions : j < k })

\* The checkpoint before the one at position k (0 when it is the first).
PreviousCheckpoint(k) ==
    IF \E j \in CheckpointPositions : j < k
    THEN CHOOSE j \in CheckpointPositions :
            j < k /\ \A i \in CheckpointPositions : i < k => i <= j
    ELSE 0

\* B, 2B, ..., floor(n/B)*B and then n.
ExpectedCounts(n) ==
    [k \in 1..((n \div batch_size) + 1) |->
        IF k <= n \div batch_size THEN k * batch_size ELSE n]

(***************************************************************************)
(* C1.  A successful run over N data rows emits floor(N/1000) + 1           *)
(* checkpoints, with the counts 1000, 2000, ..., floor(N/1000)*1000 and     *)
(* then N: 2500 rows give 1000, 2000, 2500; 1000 rows give 1000, 1000; no   *)
(* row gives the one count 0.                                              *)
(***************************************************************************)
C1_CheckpointCounts ==
    pc = "done" =>
        /\ CheckpointCounts = ExpectedCounts(rows_read)
        /\ rows_read = 2500 => CheckpointCounts = << 1000, 2000, 2500 >>
        /\ rows_read = 1000 => CheckpointCounts = << 1000, 1000 >>
        /\ rows_read = 0 => CheckpointCounts = << 0 >>

C1_Witness == pc = "done" /\ rows_read = 2500 /\ Len(CheckpointCounts) = 3

(***************************************************************************)
(* C2.  A successful run over N data rows emits exactly N upserts, and the *)
(* i-th upsert carries the record of the i-th data row: no row is skipped, *)
(* repeated or reordered, within a batch or across batches.  (Row n of the *)
(* long CSV has the email cell BatchEmail(n).)                             *)
(***************************************************************************)
C2_UpsertsInSourceOrder ==
    pc = "done" =>
        LET ups == SelectSeq(ops, IsUpsert)
            colour == normalize_field_name(S_FavoriteColor)
        IN /\ Len(ups) = rows_read
           /\ \A i \in DOMAIN ups :
                /\ ups[i].table = "audience"
                /\ ups[i].data[S_email] = PyStr(BatchEmail(i))
                /\ ups[i].data[colour] = PyStr(BatchCells[(i % Len(BatchCells)) + 1])

C2_Witness ==
    /\ pc = "done"
    /\ rows_read = (2 * batch_size) + 1
    /\ Len(SelectSeq(ops, IsUpsert)) = (2 * batch_size) + 1

(***************************************************************************)
(* C3.  Checkpoints are emitted only at batch boundaries: a checkpoint's   *)
(* count is the number of upserts emitted before it, and the upserts since *)
(* the checkpoint before it are exactly 1000, except before the final      *)
(* checkpoint of a run, where they are between 0 and 999.                  *)
(***************************************************************************)
C3_CheckpointsAtBatchBoundaries ==
    \A k \in CheckpointPositions :
        LET gap == UpsertsBefore(k)
                     - (IF PreviousCheckpoint(k) = 0 THEN 0
                        ELSE UpsertsBefore(PreviousCheckpoint(k)))
        IN /\ ops[k].records_processed = UpsertsBefore(k)
           /\ IF pc = "done" /\ k = Len(ops)
              THEN gap >= 0 /\ gap <= 999
              ELSE gap = 1000

C3_Witness ==
    /\ pc = "done"
    /\ Cardinality(CheckpointPositions) = 3
    /\ ops[Len(ops)].records_processed = (2 * batch_size) + 3

(***************************************************************************)
(* C4 as stated.  When the final batch is empty, the final checkpoint does *)
(* not repeat the count of the checkpoint already emitted.                 *)
(***************************************************************************)
C4_NoRepeatedCheckpoint ==
    (pc = "done" /\ current_batch = << >> /\ Len(CheckpointCounts) >= 2) =>
        CheckpointCounts[Len(CheckpointCounts)] # CheckpointCounts[Len(CheckpointCounts) - 1]

(***************************************************************************)
(* C4, amended.  A checkpoint is emitted after every full batch and once   *)
(* more when the rows are exhausted, whether or not records remain: after  *)
(* a final partial batch it carries the new total, and when the final      *)
(* batch is empty it repeats the count of the checkpoint before it (or     *)
(* carries 0 when no full batch was emitted).                              *)
(***************************************************************************)
C4_FinalCheckpointUnconditional ==
    pc = "done" =>
        LET counts == CheckpointCounts
            n == Len(counts)
            full == Len(SelectSeq(ops, IsUpsert)) \div batch_size
        IN /\ n = full + 1
           /\ IsCheckpoint(ops[Len(ops)])
           /\ IF current_batch # << >>
              THEN counts[n] = (full * batch_size) + Len(current_batch)
              ELSE counts[n] = (IF n = 1 THEN 0 ELSE counts[n - 1])

C4_Witness ==
    /\ pc = "done"
    /\ current_batch = << >>
    /\ CheckpointCounts = << 1000, 1000 >>

(***************************************************************************)
(* C5.  Within one run the counts of successive checkpoints never          *)
(* decrease.                                                               *)
(***************************************************************************)
C5_CountsNonDecreasing ==
    LET counts == CheckpointCounts
    IN \A i \in DOMAIN counts : \A j \in DOMAIN counts : i <= j => counts[i] <= counts[j]

C5_Witness ==
    /\ pc = "done"
    /\ Len(CheckpointCounts) = 3
    /\ CheckpointCounts[3] > CheckpointCounts[2]

(***************************************************************************)
(* What the claims read off the log.                                       *)
(***************************************************************************)
Count(seq, x) == Cardinality({ i \in DOMAIN seq : seq[i] = x })

IsExportRequest(e) ==
    e \in {"POST exportContacts", "GET getAudienceDownload", "POST signs3Url"}

\* The requests of the export protocol issued so far, in order.
ExportLog == SelectSeq(log, IsExportRequest)

\* fetch_loops_export has returned a download URL.
ExportReturned == download_url.t = "str" /\ download_url.s # << >>

(***************************************************************************)
(* C6.  When every call succeeds and the status comes to read "Complete",  *)
(* fetch_loops_export has issued exactly one export-creation request, then *)
(* one or more status checks, then exactly one signing request; no         *)
(* creation request follows a status check, and a run never issues a       *)
(* second one.                                                             *)
(***************************************************************************)
C6_ExportLifecycle ==
    /\ Count(log, "POST exportContacts") <= 1
    /\ \A i \in DOMAIN log : \A j \in DOMAIN log :
          (i < j /\ log[i] = "GET getAudienceDownload") => log[j] # "POST exportContacts"
    /\ ExportReturned =>
          LET e == ExportLog
          IN /\ Len(e) >= 3
             /\ e[1] = "POST exportContacts"
             /\ e[Len(e)] = "POST signs3Url"
             /\ \A i \in 2..(Len(e) - 1) : e[i] = "GET getAudienceDownload"

C6_Witness ==
    /\ ExportReturned
    /\ ExportLog = << "POST exportContacts", "GET getAudienceDownload",
                      "GET getAudienceDownload", "POST signs3Url" >>

(***************************************************************************)
(* C7.  The poll loop has no bound: while the status read is not           *)
(* "Complete" (missing, pending or failed), however many checks were made, *)
(* the run has raised nothing and emitted nothing, no signing request was  *)
(* or can be issued, and the only step open to it is another status check, *)
(* which, when it succeeds with a status other than "Complete", leaves the *)
(* run polling.                                                            *)
(***************************************************************************)
C7_PollsUntilComplete ==
    (pc = "polling" /\ status # PyStr(S_Complete)) =>
        /\ error = NoError
        /\ ops = << >>
        /\ Count(log, "POST signs3Url") = 0
        /\ ~ENABLED (\E resp \in SignResponses : SignExport(resp))
        /\ \A st \in StatusPool \ {PyStr(S_Complete)} :
              /\ ENABLED PollExport([ok |-> TRUE, status |-> st])
              /\ ~ENABLED (/\ PollExport([ok |-> TRUE, status |-> st])
                           /\ ~(pc' = "polling" /\ error' = NoError /\ ops' = << >>))

C7_Witness ==
    /\ pc = "polling"
    /\ status = PyStr(S_Failed)
    /\ Count(log, "GET getAudienceDownload") >= 2
    /\ Count(log, "wait 5") >= 2

(***************************************************************************)
(* C8.  A fatal upstream failure (a call answered with a failure status,   *)
(* an export-creation response without a job id, a signing response        *)
(* without a download URL) ends the run: the failed request is the last    *)
(* one issued and is not issued again, no further step is taken, and no    *)
(* upsert and no checkpoint is emitted.  Without a job id no status check  *)
(* and no signing request is ever made.                                    *)
(***************************************************************************)
UpstreamFailure ==
    /\ pc = "failed"
    /\ error.type = "HTTPError" \/ error.msg \in {MissingIdMsg, MissingUrlMsg}

C8_FatalFailuresAbort ==
    /\ \A r \in {"GET customFields", "POST exportContacts", "POST signs3Url", "GET download"} :
          Count(log, r) <= 1
    /\ export_id \in {PyNone, PyStr(<< >>)} =>
          /\ Count(log, "GET getAudienceDownload") = 0
          /\ Count(log, "POST signs3Url") = 0
          /\ ops = << >>
    /\ download_url \in {PyNone, PyStr(<< >>)} => Count(log, "GET download") = 0 /\ ops = << >>
    /\ UpstreamFailure =>
          /\ ops = << >>
          /\ current_batch = << >>
          /\ ~ENABLED Next
          /\ error.type = "HTTPError" => log[Len(log)] = error.msg
          /\ error.msg = MissingIdMsg => log[Len(log)] = "POST exportContacts"
          /\ error.msg = MissingUrlMsg => log[Len(log)] = "POST signs3Url"

C8_Witness ==
    /\ pc = "failed"
    /\ error = [type |-> "ValueError", msg |-> MissingIdMsg]
    /\ export_id = PyStr(<< >>)
    /\ log = << "GET customFields", "POST exportContacts" >>

(***************************************************************************)
(* C9.  With the configuration absent, or lacking SESSION_COOKIE or        *)
(* LOOPS_API_KEY, update fails with the configuration error before any     *)
(* network call and before any upsert or checkpoint.                       *)
(***************************************************************************)
C9_ConfigurationCheckedFirst ==
    (configuration.is_none \/ ~(ConfigKeys \subseteq configuration.keys)) =>
        /\ log = << >>
        /\ ops = << >>
        /\ pc \in {"start", "failed"}
        /\ pc = "failed" => error = [type |-> "ValueError", msg |-> MissingConfigMsg]
        /\ pc = "start" => ENABLED CheckConfiguration

C9_Witness ==
    /\ pc = "failed"
    /\ configuration = [is_none |-> FALSE, keys |-> {"LOOPS_API_KEY"}]
    /\ error.msg = MissingConfigMsg

(***************************************************************************)
(* C10.  Every record emitted has the key field email, holding a string:   *)
(* never null and never a value of another type.                           *)
(***************************************************************************)
C10_EmailAlwaysString ==
    \A k \in DOMAIN ops :
        IsUpsert(ops[k]) =>
            /\ S_email \in DOMAIN ops[k].data
            /\ IsStr(ops[k].data[S_email])

(***************************************************************************)
(* C11.  Decoding a data row never raises for a malformed optional value:  *)
(* no run ends with a ValueError once the rows are being read (a cell a    *)
(* Number-typed field cannot parse becomes null, and the row is upserted). *)
(***************************************************************************)
C11_MalformedValuesDegrade ==
    (pc = "failed" /\ rows_read > 0) => error.type # "ValueError"

(***************************************************************************)
(* What the claims about decoding read off the state.                      *)
(***************************************************************************)
\* The records decoded so far: those emitted and those still in the batch.
Records ==
    { ops[k].data : k \in { j \in DOMAIN ops : IsUpsert(ops[j]) } }
        \cup { current_batch[k] : k \in DOMAIN current_batch }

\* The rows have been reached: the header row is mapped.
HeadersMapped == pc \in {"rows", "done"} \/ (pc = "failed" /\ rows_read > 0)

S_favorite_color == << "f","a","v","o","r","i","t","e","_","c","o","l","o","r" >>

S_favorite__color == << "f","a","v","o","r","i","t","e","_","_","c","o","l","o","r" >>

\* Discovery returned the single field "Favorite Color": it has the canonical
\* name `name` typed STRING, a header "Favorite Color" maps to it, and a row
\* whose cells are "Blue" decodes to a record with name = "Blue".
FavoriteColorScenario(name) ==
    (Len(field_mapping) = 1 /\ field_mapping[1][1] = S_FavoriteColor) =>
        /\ field_mapping[1][2] = name
        /\ DOMAIN custom_fields = {name}
        /\ name \in DOMAIN custom_fields => custom_fields[name].type = "STRING"
        /\ (HeadersMapped /\ S_FavoriteColor \in Range(headers)) =>
              /\ name \in DOMAIN field_indices
              /\ name \in DOMAIN field_indices =>
                    field_indices[name] = IndexOf(headers, S_FavoriteColor)
              /\ \A r \in Records :
                    r[S_email] = PyStr(S_Blue) =>
                        name \in DOMAIN r /\ r[name] = PyStr(S_Blue)

(***************************************************************************)
(* C12 as stated.  The field "Favorite Color" of type string gets the      *)
(* canonical name favorite_color, typed String; the header "Favorite       *)
(* Color" maps to it and the cell "Blue" decodes to favorite_color =       *)
(* "Blue".                                                                 *)
(***************************************************************************)
C12_FavoriteColorSingleUnderscore == FavoriteColorScenario(S_favorite_color)

(***************************************************************************)
(* C12, amended.  The canonical name is favorite__color, with two          *)
(* underscores: one inserted before the upper-case C and one that replaces *)
(* the space.  It is typed String, the header "Favorite Color" maps to it, *)
(* and the cell "Blue" decodes to favorite__color = "Blue".                *)
(***************************************************************************)
C12_FavoriteColorDoubleUnderscore ==
    /\ normalize_field_name(S_FavoriteColor) = S_favorite__color
    /\ FavoriteColorScenario(S_favorite__color)

C12_Witness ==
    /\ pc = "done"
    /\ field_mapping = << << S_FavoriteColor, S_favorite__color >> >>
    /\ \E k \in DOMAIN ops :
          /\ IsUpsert(ops[k])
          /\ S_favorite__color \in DOMAIN ops[k].data
          /\ ops[k].data[S_favorite__color] = PyStr(S_Blue)

(***************************************************************************)
(* C13.  Name normalization is idempotent: the canonical name schema       *)
(* derives from a non-empty external name is not empty and normalizes to   *)
(* itself, normalize_field_name(normalize_field_name(x)) =                 *)
(* normalize_field_name(x).                                                *)
(***************************************************************************)
C13_NormalizationIdempotent ==
    schema_pc = "returned" =>
        \A k \in DOMAIN schema_custom_fields :
            /\ schema_custom_fields[k].original_name # << >>
            /\ k = normalize_field_name(schema_custom_fields[k].original_name)
            /\ ~normalize_field_name_raises(k)
            /\ normalize_field_name(k) = k

\* A name that normalization changes in all three ways: a digit first, an
\* upper-case letter and a character that is not alphanumeric.
C13_Witness ==
    /\ schema_pc = "returned"
    /\ \E k \in DOMAIN schema_custom_fields :
          /\ schema_custom_fields[k].original_name = << "1", "B", " " >>
          /\ k = << "f", "_", "1", "_", "b", "_" >>

\* A data row has been decoded and the run goes on.
RowDecoded == pc \in {"rows", "done"} /\ rows_read > 0

\* The record decoded from row, the last row read: the last of the batch, or
\* the last upsert when that row filled the batch.
LastRecord ==
    IF current_batch # << >>
    THEN current_batch[Len(current_batch)]
    ELSE ops[CHOOSE k \in DOMAIN ops :
                /\ IsUpsert(ops[k])
                /\ \A j \in DOMAIN ops : j > k => ~IsUpsert(ops[j])].data

\* "true" in every mix of upper and lower case.
TrueTexts ==
    { << a, b, c, d >> : a \in {"t", "T"}, b \in {"r", "R"}, c \in {"u", "U"}, d \in {"e", "E"} }

(***************************************************************************)
(* C14.  A cell of a column declared BOOLEAN (unsubscribed, or a custom    *)
(* field of type boolean) decodes to true exactly when its text is "true"  *)
(* in some mix of upper and lower case; "TRUE " with a trailing space,     *)
(* "1", the empty text and every other text decode to false.               *)
(***************************************************************************)
C14_BooleanOnlyTrue ==
    RowDecoded =>
        \A k \in DOMAIN LastRecord :
            (/\ k \in DOMAIN columns
             /\ columns[k] = "BOOLEAN"
             /\ k \in DOMAIN field_indices) =>
                LastRecord[k] = PyBool(row[field_indices[k]] \in TrueTexts)

\* A custom Boolean cell "TRUE" decoded to true, next to unsubscribed.
C14_Witness ==
    /\ RowDecoded
    /\ \E k \in DOMAIN LastRecord \ StandardColumns :
          /\ columns[k] = "BOOLEAN"
          /\ k \in DOMAIN field_indices
          /\ row[field_indices[k]] = S_TRUE
          /\ LastRecord[k] = PyBool(TRUE)

(***************************************************************************)
(* ISO-8601 timestamps ending in Z, read off the text.                     *)
(***************************************************************************)
AllDigits(s, from, to) == \A i \in from..to : i \in DOMAIN s /\ IsDigit(s[i])

\* YYYY-MM-DDTHH:MM:SS, an optional fraction of one or more digits, and Z.
IsoShape(s) ==
    /\ Len(s) >= 20
    /\ AllDigits(s, 1, 4) /\ s[5] = "-" /\ AllDigits(s, 6, 7) /\ s[8] = "-"
    /\ AllDigits(s, 9, 10) /\ s[11] = "T"
    /\ AllDigits(s, 12, 13) /\ s[14] = ":" /\ AllDigits(s, 15, 16) /\ s[17] = ":"
    /\ AllDigits(s, 18, 19)
    /\ s[Len(s)] = "Z"
    /\ Len(s) > 20 => (s[20] = "." /\ Len(s) >= 22 /\ AllDigits(s, 21, Len(s) - 1))

IsoYear(s) == NumVal(SubSeq(s, 1, 4))

\* The digits of the fraction of a timestamp of that shape.
IsoFractionDigits(s) == IF Len(s) = 20 THEN 0 ELSE Len(s) - 21

\* A calendar date and a time of day.
IsoValues(s) ==
    /\ NumVal(SubSeq(s, 6, 7)) \in 1..12
    /\ NumVal(SubSeq(s, 9, 10)) \in 1..DaysInMonth(IsoYear(s), NumVal(SubSeq(s, 6, 7)))
    /\ NumVal(SubSeq(s, 12, 13)) \in 0..23
    /\ NumVal(SubSeq(s, 15, 16)) \in 0..59
    /\ NumVal(SubSeq(s, 18, 19)) \in 0..59

IsIso8601Z(s) == IsoShape(s) /\ IsoValues(s)

\* The text with its trailing Z replaced by +00:00.
WithUtcOffset(s) == SubSeq(s, 1, Len(s) - 1) \o << "+", "0", "0", ":", "0", "0" >>

\* The columns decoded by sanitize_datetime that the header maps.
TimestampColumns ==
    { k \in DOMAIN field_indices :
        IF k \in DOMAIN custom_fields
        THEN custom_fields[k].type = "UTC_DATETIME"
        ELSE k \in {S_created_at, S_updated_at} }

(***************************************************************************)
(* C15 as stated.  Every valid ISO-8601 timestamp ending in Z sanitizes to *)
(* a non-null result: the input with its trailing Z replaced by +00:00.    *)
(***************************************************************************)
C15_EveryIsoZuluRoundTrips ==
    RowDecoded =>
        \A k \in TimestampColumns :
            IsIso8601Z(row[field_indices[k]]) =>
                LastRecord[k] = PyStr(WithUtcOffset(row[field_indices[k]]))

(***************************************************************************)
(* C15, amended.  A timestamp YYYY-MM-DDTHH:MM:SS.f...Z with one to six    *)
(* digits of fraction, a year from 0001 to 9999 and a valid date and time  *)
(* of day sanitizes to the input with its trailing Z replaced by +00:00;   *)
(* a valid timestamp with no fraction, with more than six digits of        *)
(* fraction or with the year 0000 sanitizes to null.                       *)
(***************************************************************************)
C15_FractionalZuluRoundTrips ==
    RowDecoded =>
        \A k \in TimestampColumns :
            IsIso8601Z(row[field_indices[k]]) =>
                LastRecord[k] =
                    (IF /\ IsoFractionDigits(row[field_indices[k]]) \in 1..6
                        /\ IsoYear(row[field_indices[k]]) >= 1
                     THEN PyStr(WithUtcOffset(row[field_indices[k]]))
                     ELSE PyNone)

C15_Witness ==
    /\ RowDecoded
    /\ row[2] = << "2","0","2","4","-","0","2","-","2","9","T","2","3",":","5","9",":","5","9",".","1","2","3","4","5","6","Z" >>
    /\ LastRecord[S_created_at] = PyStr(<< "2","0","2","4","-","0","2","-","2","9","T","2","3",":","5","9",":","5","9",".","1","2","3","4","5","6","+","0","0",":","0","0" >>)
    /\ Cardinality(TimestampColumns) = 3

(***************************************************************************)
(* C16.  Every status check is immediately preceded by one 5-unit wait,    *)
(* the first check included, so there are as many waits as checks.  The    *)
(* signing request directly follows a status check, and the status that    *)
(* check returned is "Complete".  A check is followed by nothing but the   *)
(* next wait or the signing request; while the status returned is anything *)
(* else (missing, pending, failed), signing is not open to the run and     *)
(* another wait and check is.                                              *)
(***************************************************************************)
C16_WaitBeforeEveryCheck ==
    /\ \A i \in DOMAIN log :
          log[i] = "GET getAudienceDownload" => (i > 1 /\ log[i - 1] = "wait 5")
    /\ \A i \in DOMAIN log :
          log[i] = "wait 5" => (i < Len(log) /\ log[i + 1] = "GET getAudienceDownload")
    /\ Count(log, "wait 5") = Count(log, "GET getAudienceDownload")
    /\ \A i \in DOMAIN log :
          log[i] = "POST signs3Url" =>
              /\ i > 1
              /\ log[i - 1] = "GET getAudienceDownload"
              /\ status = PyStr(S_Complete)
    /\ \A i \in DOMAIN log :
          (log[i] = "GET getAudienceDownload" /\ i < Len(log)) =>
              log[i + 1] \in {"wait 5", "POST signs3Url"}
    /\ (pc = "polling" /\ Count(log, "GET getAudienceDownload") > 0
            /\ status # PyStr(S_Complete)) =>
          /\ ~ENABLED (\E resp \in SignResponses : SignExport(resp))
          /\ ENABLED (/\ \E resp \in PollResponses : PollExport(resp)
                      /\ log' = log \o << "wait 5", "GET getAudienceDownload" >>)

C16_Witness ==
    /\ Count(log, "wait 5") = 2
    /\ Count(log, "GET getAudienceDownload") = 2
    /\ Count(log, "POST signs3Url") = 1
    /\ status = PyStr(S_Complete)

(***************************************************************************)
(* C17.  Custom fields never override the standard columns: whatever the   *)
(* custom fields discovered, the schema declares each of the seven         *)
(* standard columns with its hardcoded type, and the standard fields of a  *)
(* record hold the values decoded from the standard CSV columns.           *)
(***************************************************************************)
C17_StandardColumnsFixed ==
    /\ schema_pc = "returned" =>
          \A k \in StandardColumns :
              k \in DOMAIN columns /\ columns[k] = base_columns[k]
    /\ RowDecoded =>
          \A k \in StandardColumns :
              LastRecord[k] = StandardValue(k, row, field_indices)

\* The canonical names that some column of the CSV header is mapped to.
NamesInHeader ==
    { field_mapping[i][2] :
        i \in { j \in DOMAIN field_mapping :
                  \E h \in DOMAIN headers : headers[h] = field_mapping[j][1] } }

(***************************************************************************)
(* C18.  When schema and update are given the same custom fields, every    *)
(* key of every record emitted or batched is a column the schema declared: *)
(* the record's keys are the seven standard columns and the discovered     *)
(* custom names whose external name is in the CSV header, and no other; a  *)
(* custom field absent from the header adds no key.                        *)
(***************************************************************************)
C18_RecordKeysDeclared ==
    (schema_pc = "returned" /\ pc \in {"rows", "done"}) =>
        /\ schema_custom_fields = custom_fields
        /\ DOMAIN columns = StandardColumns \cup DOMAIN custom_fields
        /\ \A r \in Records :
              /\ DOMAIN r \subseteq DOMAIN columns
              /\ DOMAIN r =
                    StandardColumns \cup (DOMAIN custom_fields \cap NamesInHeader)

C18_Witness ==
    /\ schema_pc = "returned"
    /\ RowDecoded
    /\ S_vip \in DOMAIN custom_fields
    /\ S_vip \in DOMAIN columns
    /\ S_vip \notin NamesInHeader
    /\ S_vip \notin DOMAIN LastRecord

(***************************************************************************)
(* C19.  When update aborts while decoding a data row, every upsert        *)
(* emitted so far is covered by a checkpoint: the last operation emitted   *)
(* is a checkpoint whose count is the number of upserts emitted (or        *)
(* nothing was emitted at all).  The rows decoded since that checkpoint,   *)
(* at most 999, are in the unflushed batch and none of them was upserted.  *)
(***************************************************************************)
C19_AbortLeavesCheckpointedPrefix ==
    (pc = "failed" /\ rows_read > 0) =>
        LET ups == { k \in DOMAIN ops : IsUpsert(ops[k]) }
        IN /\ Cardinality(ups) = total_records
           /\ ops # << >> =>
                 /\ IsCheckpoint(ops[Len(ops)])
                 /\ ops[Len(ops)].records_processed = Cardinality(ups)
           /\ Len(current_batch) <= batch_size - 1
           /\ Len(current_batch) = (rows_read - 1) - total_records
           /\ current_batch # << >> =>
                 /\ current_batch[1][S_email] = PyStr(BatchEmail(total_records + 1))
                 /\ current_batch[Len(current_batch)][S_email] =
                       PyStr(BatchEmail(rows_read - 1))
           /\ { current_batch[i][S_email] : i \in DOMAIN current_batch }
                 \cap { ops[k].data[S_email] : k \in ups } = { }

C19_Witness ==
    /\ pc = "failed"
    /\ error.type = "IndexError"
    /\ rows_read = batch_size + 3
    /\ total_records = batch_size
    /\ Len(current_batch) = 2
    /\ Len(ops) = batch_size + 1
    /\ IsCheckpoint(ops[Len(ops)])

====
